---- MODULE Spec2Model ----
(***************************************************************************)
(* State-machine model of services/storage_service.py (the persistence     *)
(* gateway) and of get_db / initialize_firebase in services/auth_service.py*)
(*                                                                         *)
(* Python values are encoded so that any two of them can be compared:      *)
(*   str            a sequence of one-character strings                    *)
(*   None           the sequence <<"None">> (no str equals it)             *)
(*   True, False    the sequences <<"True">> and <<"False">>               *)
(*   a mapping dict a flat sequence of strings key1, value1, key2, ...     *)
(*   a DataFrame    a sequence of rows, each row a flat sequence           *)
(*   a stored dict  a TLA+ record (a function from field names)            *)
(***************************************************************************)
EXTENDS Integers, Sequences, FiniteSets, TLC

(* ---------------------------- bounds ---------------------------------- *)
MaxOps == 2          \* gateway calls made in one session
MaxClock == 1        \* last clock tick (sub-second ticks)

(* --------------------------- Python values ---------------------------- *)
None == <<"None">>
True == <<"True">>
False == <<"False">>
EmptyStr == <<>>
DemoPrefix == <<"d", "e", "m", "o", "_", "u", "s", "e", "r", "_">>
Digits == <<"0", "1", "2", "3", "4", "5", "6", "7", "8", "9">>

\* `not x` for x a str or None
Falsy(x) == x = None \/ x = EmptyStr

\* s == p in the place of s.startswith(p)
EqualsPrefix(s, p) == s = p

\* s.startswith(p)
StartsWith(s, p) == Len(s) >= Len(p) /\ SubSeq(s, 1, Len(p)) = p

\* d[k] = v on a dict
Put(d, k, v) == [x \in (DOMAIN d) \cup {k} |-> IF x = k THEN v ELSE d[x]]

\* DocumentReference.update(fields): the named fields are set, the others kept
Merge(doc, fields) ==
  [k \in (DOMAIN doc) \cup (DOMAIN fields) |->
     IF k \in DOMAIN fields THEN fields[k] ELSE doc[k]]

EmptyDict == <<>>

(* ------------------------------ inputs -------------------------------- *)
DemoA == DemoPrefix \o <<"a">>
DemoB == DemoPrefix \o <<"b">>
UserU1 == <<"u", "1">>
UserIds == {None, DemoA, DemoB, UserU1}

FileIds == {<<"a", ".", "c", "s", "v">>, <<"b", ".", "c", "s", "v">>}
MapDate == <<"Date", "date">>
MapAmt == <<"Date", "date", "Amt", "amount">>
MappingDicts == {MapDate, MapAmt}

Budget == <<"b", "u", "d", "g", "e", "t">>
DataTypes == {EmptyStr, Budget}
TypeFilters == DataTypes \cup {None}
Row == <<"amount", "1">>
DataFrames == {<<>>, <<Row>>}

(* ------------------------------- state -------------------------------- *)
VARIABLES
  session_state,   \* st.session_state: a dict that may hold "saved_mappings"
                   \* and "saved_financial_data"
  firestore,       \* users/{user_id}/mappings and users/{user_id}/financial_data
  firebase_app,    \* what initialize_firebase() returns: TRUE the app, FALSE None
  now,             \* datetime.now(), in ticks of 1/TicksPerSecond second
  nops,            \* calls made so far
  last             \* the last call: its arguments, what it returned, the store
                   \* it acted on and the remote calls it issued

vars == <<session_state, firestore, firebase_app, now, nops, last>>

TicksPerSecond == 2

\* datetime.now().isoformat(): full precision
IsoFormat(t) == t

\* datetime.now().strftime('%Y%m%d%H%M%S'): truncated to the second
Strftime(t) == <<Digits[(t \div TicksPerSecond) + 1]>>

\* auto-generated document ids, in the order Firestore lists them (by name)
DocId(i) == <<"k", Digits[i + 1]>>
DocIds == {DocId(i) : i \in 1..MaxOps}
DocIndex(id) == CHOOSE i \in 1..MaxOps : DocId(i) = id

EmptyUserDoc == [mappings |-> EmptyDict, financial_data |-> EmptyDict]

Init ==
  /\ session_state = EmptyDict
  /\ firestore = [u \in UserIds |-> EmptyUserDoc]
  /\ firebase_app \in BOOLEAN
  /\ now = 0
  /\ nops = 0
  /\ last = [op |-> "init"]

\* what one call did: the stores after it, its return value, the store its
\* branch acts on ("ephemeral", "remote" or "none") and the remote calls issued
Outcome(ss, fs, result, store, calls) ==
  [session_state |-> ss, firestore |-> fs, result |-> result,
   store |-> store, calls |-> calls]

\* an exception that leaves the operation and reaches its caller
Raised == <<"raised">>

Uncaught(failure) == Raised

\* `except Exception as e: st.error(...); return <failure>`
Caught(failure) == failure

\* initialize_firebase(): the firebase_admin module, or None when the
\* credentials cannot be loaded
initialize_firebase == firebase_app

\* get_db() taken to give a client whether or not the app was initialized
get_db_always == TRUE

\* get_db(): a Firestore client, or None (FALSE) without an app
get_db == IF initialize_firebase THEN TRUE ELSE FALSE

\* an id generator that may repeat an id already in the collection
AnyDocIds(coll) == DocIds

\* CollectionReference.add(doc): the document is stored under a new id
NewDocIds(coll) == DocIds \ DOMAIN coll

\* collection.where(field, "==", value).get(): the ids of the matching documents
Where(coll, field, value) ==
  {id \in DOMAIN coll : field \in DOMAIN coll[id] /\ coll[id][field] = value}

\* query.limit(1): the first match in Firestore's default order (by document id)
Limit1(ids) ==
  IF ids = {} THEN {}
  ELSE {CHOOSE id \in ids : \A other \in ids : DocIndex(id) <= DocIndex(other)}

\* st.session_state.saved_mappings, created empty when the key is missing
SessionDict(key) ==
  IF key \in DOMAIN session_state THEN session_state[key] ELSE EmptyDict

\* users/{user_id}/<name> with one document written
WithDoc(user_id, name, id, doc) ==
  [firestore EXCEPT ![user_id][name] = Put(firestore[user_id][name], id, doc)]

(* ------------------------ save_column_mappings ------------------------- *)
\* a save that looks the file label up first and updates the document found
SaveColumnMappingsUpsert(user_id, file_id, mappings, fault, auto_id) ==
  IF Falsy(user_id) \/ StartsWith(user_id, DemoPrefix) THEN
    Outcome(
      Put(session_state, "saved_mappings",
          Put(SessionDict("saved_mappings"), file_id,
              [mappings |-> mappings, last_used |-> IsoFormat(now)])),
      firestore, True, "ephemeral", 0)
  ELSE IF ~get_db THEN
    Outcome(session_state, firestore, False, "none", 0)
  ELSE IF fault = 1 THEN
    Outcome(session_state, firestore, Caught(False), "remote", 1)
  ELSE
    LET mapping_doc == [file_name |-> file_id, mappings |-> mappings,
                        created_at |-> IsoFormat(now), last_used |-> IsoFormat(now)]
        found == Limit1(Where(firestore[user_id].mappings, "file_name", file_id))
        id == IF found = {} THEN auto_id ELSE CHOOSE d \in found : TRUE
    IN Outcome(session_state, WithDoc(user_id, "mappings", id, mapping_doc),
               True, "remote", 1)

SaveColumnMappings(user_id, file_id, mappings, fault, auto_id) ==
  IF Falsy(user_id) \/ StartsWith(user_id, DemoPrefix) THEN
    Outcome(
      Put(session_state, "saved_mappings",
          Put(SessionDict("saved_mappings"), file_id,
              [mappings |-> mappings, last_used |-> IsoFormat(now)])),
      firestore, True, "ephemeral", 0)
  ELSE IF ~get_db THEN
    Outcome(session_state, firestore, False, "none", 0)
  ELSE IF fault = 1 THEN
    Outcome(session_state, firestore, Caught(False), "remote", 1)
  ELSE
    Outcome(session_state,
            WithDoc(user_id, "mappings", auto_id,
                    [file_name |-> file_id, mappings |-> mappings,
                     created_at |-> IsoFormat(now), last_used |-> IsoFormat(now)]),
            True, "remote", 1)

(* ------------------------ get_existing_mappings ------------------------ *)
GetExistingMappings(user_id, file_name, fault) ==
  IF Falsy(user_id) THEN
    Outcome(session_state, firestore, None, "none", 0)
  ELSE IF StartsWith(user_id, DemoPrefix) THEN
    IF "saved_mappings" \in DOMAIN session_state
       /\ file_name \in DOMAIN session_state["saved_mappings"]
    THEN Outcome(session_state, firestore,
                 session_state["saved_mappings"][file_name].mappings,
                 "ephemeral", 0)
    ELSE Outcome(session_state, firestore, None, "ephemeral", 0)
  ELSE IF ~get_db THEN
    Outcome(session_state, firestore, None, "none", 0)
  ELSE IF fault = 1 THEN
    Outcome(session_state, firestore, Caught(None), "remote", 1)
  ELSE
    LET mappings_ref == firestore[user_id].mappings
        similar_mappings == Limit1(Where(mappings_ref, "file_name", file_name))
    IN IF similar_mappings = {} THEN
         Outcome(session_state, firestore, None, "remote", 1)
       ELSE
         LET id == CHOOSE d \in similar_mappings : TRUE
             mapping_data == mappings_ref[id]
         IN IF fault = 2 THEN
              Outcome(session_state, firestore, Caught(None), "remote", 2)
            ELSE
              Outcome(session_state,
                      WithDoc(user_id, "mappings", id,
                              Merge(mapping_data, [last_used |-> IsoFormat(now)])),
                      mapping_data.mappings, "remote", 2)

(* ------------------------ update_column_mappings ----------------------- *)
\* an update that fails when the label has no document instead of creating one
UpdateColumnMappingsOnly(user_id, file_id, updated_mappings, fault, auto_id) ==
  IF Falsy(user_id) \/ StartsWith(user_id, DemoPrefix) THEN
    Outcome(
      Put(session_state, "saved_mappings",
          Put(SessionDict("saved_mappings"), file_id,
              [mappings |-> updated_mappings, last_used |-> IsoFormat(now)])),
      firestore, True, "ephemeral", 0)
  ELSE IF ~get_db THEN
    Outcome(session_state, firestore, False, "none", 0)
  ELSE IF fault = 1 THEN
    Outcome(session_state, firestore, Caught(False), "remote", 1)
  ELSE
    LET mapping_doc == [file_name |-> file_id, mappings |-> updated_mappings,
                        updated_at |-> IsoFormat(now), last_used |-> IsoFormat(now)]
        mappings_ref == firestore[user_id].mappings
        docs_list == Limit1(Where(mappings_ref, "file_name", file_id))
    IN IF docs_list = {} THEN
         Outcome(session_state, firestore, False, "remote", 1)
       ELSE IF fault = 2 THEN
         Outcome(session_state, firestore, Caught(False), "remote", 2)
       ELSE
         LET id == CHOOSE d \in docs_list : TRUE
         IN Outcome(session_state,
                    WithDoc(user_id, "mappings", id, Merge(mappings_ref[id], mapping_doc)),
                    True, "remote", 2)

UpdateColumnMappings(user_id, file_id, updated_mappings, fault, auto_id) ==
  IF Falsy(user_id) \/ StartsWith(user_id, DemoPrefix) THEN
    Outcome(
      Put(session_state, "saved_mappings",
          Put(SessionDict("saved_mappings"), file_id,
              [mappings |-> updated_mappings, last_used |-> IsoFormat(now)])),
      firestore, True, "ephemeral", 0)
  ELSE IF ~get_db THEN
    Outcome(session_state, firestore, False, "none", 0)
  ELSE IF fault = 1 THEN
    Outcome(session_state, firestore, Caught(False), "remote", 1)
  ELSE
    LET mapping_doc == [file_name |-> file_id, mappings |-> updated_mappings,
                        updated_at |-> IsoFormat(now), last_used |-> IsoFormat(now)]
        mappings_ref == firestore[user_id].mappings
        docs_list == Limit1(Where(mappings_ref, "file_name", file_id))
    IN IF fault = 2 THEN
         Outcome(session_state, firestore, Caught(False), "remote", 2)
       ELSE IF docs_list # {} THEN
         LET id == CHOOSE d \in docs_list : TRUE
         IN Outcome(session_state,
                    WithDoc(user_id, "mappings", id, Merge(mappings_ref[id], mapping_doc)),
                    True, "remote", 2)
       ELSE
         Outcome(session_state,
                 WithDoc(user_id, "mappings", auto_id, mapping_doc),
                 True, "remote", 2)

(* -------------------------- save_financial_data ------------------------ *)
SaveFinancialData(user_id, data_type, data_df, fault, auto_id) ==
  IF Falsy(user_id) \/ StartsWith(user_id, DemoPrefix) THEN
    LET data_id == data_type \o <<"_">> \o Strftime(now)
    IN Outcome(
         Put(session_state, "saved_financial_data",
             Put(SessionDict("saved_financial_data"), data_id,
                 [type |-> data_type, data |-> data_df,
                  created_at |-> IsoFormat(now)])),
         firestore, <<True, data_id>>, "ephemeral", 0)
  ELSE IF ~get_db THEN
    Outcome(session_state, firestore, <<False, None>>, "none", 0)
  ELSE IF fault = 1 THEN
    Outcome(session_state, firestore, Caught(<<False, None>>), "remote", 1)
  ELSE
    Outcome(session_state,
            WithDoc(user_id, "financial_data", auto_id,
                    [type |-> data_type, data |-> data_df,
                     created_at |-> IsoFormat(now), row_count |-> Len(data_df)]),
            <<True, auto_id>>, "remote", 1)

(* ------------------------ get_user_financial_data ---------------------- *)
\* a retrieval that drops the data_type filter
GetUserFinancialDataUnfiltered(user_id, data_type, fault) ==
  IF Falsy(user_id) THEN
    Outcome(session_state, firestore, EmptyDict, "none", 0)
  ELSE IF StartsWith(user_id, DemoPrefix) THEN
    Outcome(session_state, firestore, SessionDict("saved_financial_data"),
            "ephemeral", 0)
  ELSE IF ~get_db THEN
    Outcome(session_state, firestore, EmptyDict, "none", 0)
  ELSE IF fault = 1 THEN
    Outcome(session_state, firestore, Caught(EmptyDict), "remote", 1)
  ELSE
    Outcome(session_state, firestore, firestore[user_id].financial_data,
            "remote", 1)

GetUserFinancialData(user_id, data_type, fault) ==
  IF Falsy(user_id) THEN
    Outcome(session_state, firestore, EmptyDict, "none", 0)
  ELSE IF StartsWith(user_id, DemoPrefix) THEN
    IF "saved_financial_data" \notin DOMAIN session_state THEN
      Outcome(session_state, firestore, EmptyDict, "ephemeral", 0)
    ELSE
      LET saved == session_state["saved_financial_data"]
      IN IF ~Falsy(data_type) THEN
           Outcome(session_state, firestore,
                   [k \in {x \in DOMAIN saved : saved[x].type = data_type} |-> saved[k]],
                   "ephemeral", 0)
         ELSE Outcome(session_state, firestore, saved, "ephemeral", 0)
  ELSE IF ~get_db THEN
    Outcome(session_state, firestore, EmptyDict, "none", 0)
  ELSE IF fault = 1 THEN
    Outcome(session_state, firestore, Caught(EmptyDict), "remote", 1)
  ELSE
    LET data_ref == firestore[user_id].financial_data
        docs == IF ~Falsy(data_type) THEN Where(data_ref, "type", data_type)
                ELSE DOMAIN data_ref
    IN Outcome(session_state, firestore, [id \in docs |-> data_ref[id]], "remote", 1)

(* ------------------------------ actions -------------------------------- *)
Called(op, user_id, key, arg, fault, o) ==
  /\ session_state' = o.session_state
  /\ firestore' = o.firestore
  /\ nops' = nops + 1
  /\ last' = [op |-> op, user_id |-> user_id, key |-> key, arg |-> arg,
              fault |-> fault, result |-> o.result, store |-> o.store,
              calls |-> o.calls]
  /\ UNCHANGED <<firebase_app, now>>

\* fault = k: the k-th remote call of the operation raises (0: none does), so
\* k is at most the number of calls the operation issues.
save_column_mappings ==
  /\ nops < MaxOps
  /\ \E user_id \in UserIds, file_id \in FileIds, mappings \in MappingDicts,
        fault \in 0..1 :
       \E auto_id \in NewDocIds(firestore[user_id].mappings) :
         LET o == SaveColumnMappings(user_id, file_id, mappings, fault, auto_id)
         IN fault <= o.calls
            /\ Called("save_column_mappings", user_id, file_id, mappings, fault, o)

get_existing_mappings ==
  /\ nops < MaxOps
  /\ \E user_id \in UserIds, file_name \in FileIds, fault \in 0..2 :
       LET o == GetExistingMappings(user_id, file_name, fault)
       IN fault <= o.calls
          /\ Called("get_existing_mappings", user_id, file_name, None, fault, o)

update_column_mappings ==
  /\ nops < MaxOps
  /\ \E user_id \in UserIds, file_id \in FileIds, updated_mappings \in MappingDicts,
        fault \in 0..2 :
       \E auto_id \in NewDocIds(firestore[user_id].mappings) :
         LET o == UpdateColumnMappings(user_id, file_id, updated_mappings, fault, auto_id)
         IN fault <= o.calls
            /\ Called("update_column_mappings", user_id, file_id, updated_mappings, fault, o)

save_financial_data ==
  /\ nops < MaxOps
  /\ \E user_id \in UserIds, data_type \in DataTypes, data_df \in DataFrames,
        fault \in 0..1 :
       \E auto_id \in NewDocIds(firestore[user_id].financial_data) :
         LET o == SaveFinancialData(user_id, data_type, data_df, fault, auto_id)
         IN fault <= o.calls
            /\ Called("save_financial_data", user_id, data_type, data_df, fault, o)

get_user_financial_data ==
  /\ nops < MaxOps
  /\ \E user_id \in UserIds, data_type \in TypeFilters, fault \in 0..1 :
       LET o == GetUserFinancialData(user_id, data_type, fault)
       IN fault <= o.calls
          /\ Called("get_user_financial_data", user_id, data_type, None, fault, o)

\* the wall clock advances between calls (no call reads it after the last one)
Tick ==
  /\ now < MaxClock
  /\ nops < MaxOps
  /\ now' = now + 1
  /\ UNCHANGED <<session_state, firestore, firebase_app, nops, last>>

\* the credentials are put in place and initialize_firebase runs again
FirebaseConfigured ==
  /\ ~firebase_app
  /\ nops < MaxOps
  /\ firebase_app' = TRUE
  /\ UNCHANGED <<session_state, firestore, now, nops, last>>

Next ==
  \/ save_column_mappings
  \/ get_existing_mappings
  \/ update_column_mappings
  \/ save_financial_data
  \/ get_user_financial_data
  \/ Tick
  \/ FirebaseConfigured

Spec == Init /\ [][Next]_vars

(* ======================================================================= *)
(*                                 claims                                  *)
(* ======================================================================= *)
\* the user ids that begin with demo_user_
DemoUserIds == {DemoA, DemoB}

Mappings(user_id) == firestore[user_id].mappings
FinancialData(user_id) == firestore[user_id].financial_data

\* C1 (as claimed): round trip. For a non-empty user id, after a
\* save_column_mappings(user_id, file_id, M) that returned True, a
\* get_existing_mappings(user_id, file_id) that meets no remote fault returns
\* M, whatever was saved before.
C1_RoundTrip ==
  (last.op = "save_column_mappings" /\ last.result = True
   /\ ~Falsy(last.user_id))
    => GetExistingMappings(last.user_id, last.key, 0).result = last.arg

\* C2 (as claimed): after any calls, a user's remote mappings collection
\* holds at most one document per file label.
C2_OneDocumentPerLabel ==
  \A user_id \in UserIds, file_id \in FileIds :
    Cardinality(Where(Mappings(user_id), "file_name", file_id)) <= 1

\* C2 (amended): on the remote store save_column_mappings is an insert: a
\* successful save adds exactly one new document, holding the label and the
\* mapping saved, and leaves every other document as it was (so a label can
\* have several documents); update_column_mappings is the upsert: when the
\* label already has a document, a successful update adds none; in the
\* session store a save replaces the entry kept under the file label.
C2_SaveInsertsStep ==
  /\ (last'.op = "save_column_mappings" /\ last'.result = True
      /\ last'.store = "remote")
       => LET before == Mappings(last'.user_id)
              after == firestore'[last'.user_id].mappings
              added == (DOMAIN after) \ (DOMAIN before)
          IN /\ Cardinality(added) = 1
             /\ DOMAIN before \subseteq DOMAIN after
             /\ \A id \in DOMAIN before : after[id] = before[id]
             /\ \A id \in added : /\ after[id].file_name = last'.key
                                   /\ after[id].mappings = last'.arg
  /\ (last'.op = "update_column_mappings" /\ last'.result = True
      /\ last'.store = "remote"
      /\ Where(Mappings(last'.user_id), "file_name", last'.key) # {})
       => DOMAIN firestore'[last'.user_id].mappings = DOMAIN Mappings(last'.user_id)
  /\ (last'.op = "save_column_mappings" /\ last'.store = "ephemeral")
       => /\ DOMAIN session_state'["saved_mappings"]
               = (DOMAIN SessionDict("saved_mappings")) \cup {last'.key}
          /\ session_state'["saved_mappings"][last'.key].mappings = last'.arg

\* C2 (amended), over every step that is a call: saves insert, updates upsert.
C2_SaveInserts == [][nops' # nops => C2_SaveInsertsStep]_vars

\* C2 witness: two successful remote saves left two documents for one label.
C2_Witness ==
  /\ last.op = "save_column_mappings" /\ last.result = True
  /\ last.store = "remote"
  /\ Cardinality(Where(Mappings(last.user_id), "file_name", last.key)) = 2

\* C3 (as claimed): cross-user isolation. When the only call made so far is a
\* successful save under a non-empty user id A, no other user id B gets the
\* mapping or the financial record back.
C3_CrossUserIsolation ==
  /\ (nops = 1 /\ last.op = "save_column_mappings" /\ last.result = True
      /\ ~Falsy(last.user_id))
       => \A other \in UserIds \ {last.user_id} :
            GetExistingMappings(other, last.key, 0).result = None
  /\ (nops = 1 /\ last.op = "save_financial_data" /\ last.result[1] = True
      /\ ~Falsy(last.user_id))
       => \A other \in UserIds \ {last.user_id}, data_type \in TypeFilters :
            GetUserFinancialData(other, data_type, 0).result = EmptyDict

\* the result each operation declares for a failure
FailureShape(op) ==
  CASE op = "save_column_mappings" -> False
    [] op = "update_column_mappings" -> False
    [] op = "save_financial_data" -> <<False, None>>
    [] op = "get_existing_mappings" -> None
    [] op = "get_user_financial_data" -> EmptyDict

WriteOps ==
  {"save_column_mappings", "update_column_mappings", "save_financial_data"}

\* the session store ss holds what the writing call l stored
SessionHolds(l, ss) ==
  IF l.op = "save_financial_data"
  THEN /\ "saved_financial_data" \in DOMAIN ss
       /\ l.result[2] \in DOMAIN ss["saved_financial_data"]
       /\ ss["saved_financial_data"][l.result[2]].type = l.key
       /\ ss["saved_financial_data"][l.result[2]].data = l.arg
  ELSE /\ "saved_mappings" \in DOMAIN ss
       /\ l.key \in DOMAIN ss["saved_mappings"]
       /\ ss["saved_mappings"][l.key].mappings = l.arg

\* C4 (as claimed): dispatch rule. A call with an empty or absent user id,
\* with a demo-prefixed id, or made while the remote backend cannot be
\* initialized acts on the session store; every other call acts on the
\* remote store.
C4_DispatchStep ==
  IF Falsy(last'.user_id) \/ last'.user_id \in DemoUserIds \/ ~firebase_app
  THEN last'.store = "ephemeral"
  ELSE last'.store = "remote"

C4_DispatchAmendedStep ==
  LET user_id == last'.user_id
      op == last'.op
      Untouched == session_state' = session_state /\ firestore' = firestore
  IN IF Falsy(user_id) THEN
       IF op \in WriteOps
       THEN last'.store = "ephemeral" /\ firestore' = firestore
            /\ last'.calls = 0 /\ SessionHolds(last', session_state')
       ELSE last'.store = "none" /\ Untouched /\ last'.calls = 0
            /\ last'.result = FailureShape(op)
     ELSE IF user_id \in DemoUserIds THEN
       /\ last'.store = "ephemeral" /\ firestore' = firestore /\ last'.calls = 0
       /\ IF op \in WriteOps THEN SessionHolds(last', session_state')
          ELSE session_state' = session_state
     ELSE IF ~firebase_app THEN
       last'.store = "none" /\ Untouched /\ last'.calls = 0
       /\ last'.result = FailureShape(op)
     ELSE last'.store = "remote" /\ session_state' = session_state
          /\ last'.calls >= 1

NoPriorMapping(user_id, file_id) ==
  /\ file_id \notin DOMAIN SessionDict("saved_mappings")
  /\ Where(Mappings(user_id), "file_name", file_id) = {}

\* C5 (as claimed): find-or-create. When no mapping exists for the label,
\* update_column_mappings returns what save_column_mappings would under the
\* same backend behaviour and leaves both stores exactly as the save would.
C5_UpdateAsSaveStep ==
  (last'.op = "update_column_mappings"
   /\ NoPriorMapping(last'.user_id, last'.key))
    => \E fault \in 0..1, auto_id \in NewDocIds(Mappings(last'.user_id)) :
         LET save == SaveColumnMappings(last'.user_id, last'.key, last'.arg,
                                        fault, auto_id)
         IN /\ (fault = 0) = (last'.fault = 0)
            /\ last'.result = save.result
            /\ session_state' = save.session_state
            /\ firestore' = save.firestore

\* C5 (as claimed), over every step that is a call: update without a prior
\* mapping is exactly a save.
C5_UpdateAsSave == [][nops' # nops => C5_UpdateAsSaveStep]_vars

\* the document update_column_mappings creates where save_column_mappings
\* creates doc: updated_at in the place of created_at
AsCreatedByUpdate(doc) ==
  [file_name |-> doc.file_name, mappings |-> doc.mappings,
   updated_at |-> doc.created_at, last_used |-> doc.last_used]

\* C5 (amended): when no mapping exists for the label, update_column_mappings
\* returns what save_column_mappings would under the same backend behaviour
\* (True and a new mapping unless the backend is unavailable or a remote call
\* raises) and leaves the session store as the save would; on the remote
\* store it creates one document with the same file_name, mappings and
\* last_used that carries updated_at where the save's carries created_at.
C5_UpdateAsSaveAmendedStep ==
  (last'.op = "update_column_mappings"
   /\ NoPriorMapping(last'.user_id, last'.key))
    => /\ \E fault \in 0..1, auto_id \in NewDocIds(Mappings(last'.user_id)) :
            LET user_id == last'.user_id
                save == SaveColumnMappings(user_id, last'.key, last'.arg,
                                           fault, auto_id)
                saved == save.firestore[user_id].mappings
                updated == firestore'[user_id].mappings
            IN /\ (fault = 0) = (last'.fault = 0)
               /\ last'.result = save.result
               /\ session_state' = save.session_state
               /\ \A other \in UserIds \ {user_id} :
                    firestore'[other] = save.firestore[other]
               /\ firestore'[user_id].financial_data
                    = save.firestore[user_id].financial_data
               /\ DOMAIN updated = DOMAIN saved
               /\ \A id \in DOMAIN saved :
                    IF id \in DOMAIN Mappings(user_id)
                    THEN updated[id] = saved[id]
                    ELSE updated[id] = AsCreatedByUpdate(saved[id])
       /\ (last'.fault = 0 /\ last'.store # "none") => last'.result = True

\* C5 (amended), over every step that is a call: update without a prior
\* mapping is a save up to created_at / updated_at.
C5_UpdateAsSaveAmended == [][nops' # nops => C5_UpdateAsSaveAmendedStep]_vars

\* C5 witness: update_column_mappings created the first remote document of a
\* label, and get_existing_mappings reads the mapping back.
C5_Witness ==
  /\ last.op = "update_column_mappings" /\ last.result = True
  /\ last.store = "remote"
  /\ \E id \in DOMAIN Mappings(last.user_id) :
       /\ Where(Mappings(last.user_id), "file_name", last.key) = {id}
       /\ "created_at" \notin DOMAIN Mappings(last.user_id)[id]
       /\ "updated_at" \in DOMAIN Mappings(last.user_id)[id]
  /\ GetExistingMappings(last.user_id, last.key, 0).result = last.arg

\* C6 (as claimed): for a demo user save_financial_data returns (True, id)
\* with id = data_type + "_" + the time to the second, and
\* get_user_financial_data(user_id, data_type) then holds that id with a
\* record whose row_count is the number of rows saved.
C6_DemoSaveThenGet ==
  (last.op = "save_financial_data" /\ last.user_id \in DemoUserIds)
    => /\ last.result[1] = True
       /\ \E t \in 0..now : last.result[2] = last.key \o <<"_">> \o Strftime(t)
       /\ LET got == GetUserFinancialData(last.user_id, last.key, 0).result
              data_id == last.result[2]
          IN /\ data_id \in DOMAIN got
             /\ "row_count" \in DOMAIN got[data_id]
             /\ got[data_id].row_count = Len(last.arg)

\* what get_user_financial_data(user_id, data_type) returns from the current
\* stores when no remote call raises
Retrieved(user_id, data_type) == GetUserFinancialData(user_id, data_type, 0).result

\* C7 (as claimed): filter law. For every user id and every data_type, the
\* empty string included, the unfiltered result has every key of the filtered
\* one and every filtered record has type = data_type.
C7_FilterLaw ==
  \A user_id \in UserIds, data_type \in DataTypes :
    /\ DOMAIN Retrieved(user_id, data_type) \subseteq DOMAIN Retrieved(user_id, None)
    /\ \A k \in DOMAIN Retrieved(user_id, data_type) :
         Retrieved(user_id, data_type)[k].type = data_type

\* C7 (amended): the filter law holds for every non-empty data_type; an empty
\* data_type is no filter: the call returns what the unfiltered call returns.
C7_FilterLawAmended ==
  /\ \A user_id \in UserIds, data_type \in DataTypes :
       IF Falsy(data_type)
       THEN Retrieved(user_id, data_type) = Retrieved(user_id, None)
       ELSE /\ DOMAIN Retrieved(user_id, data_type)
                 \subseteq DOMAIN Retrieved(user_id, None)
            /\ \A k \in DOMAIN Retrieved(user_id, data_type) :
                 Retrieved(user_id, data_type)[k].type = data_type
  /\ (last.op = "get_user_financial_data" /\ ~Falsy(last.key))
       => /\ \A k \in DOMAIN last.result : last.result[k].type = last.key
          /\ last.fault = 0
               => DOMAIN last.result \subseteq DOMAIN Retrieved(last.user_id, None)

\* C7 witness: a user holds records of two types, and the retrieval filtered
\* by a non-empty type returns some of them and leaves the others out.
C7_Witness ==
  \E user_id \in UserIds, data_type \in DataTypes :
    /\ ~Falsy(data_type)
    /\ DOMAIN Retrieved(user_id, data_type) # {}
    /\ DOMAIN Retrieved(user_id, data_type) # DOMAIN Retrieved(user_id, None)

\* the call l ended in an exception (the records a retrieval returns when no
\* remote call raised are a return value)
HasRaised(l) ==
  IF l.op = "get_user_financial_data" /\ l.fault = 0 THEN FALSE
  ELSE l.result = Raised

\* C8: error policy. No call raises to its caller, and a call that finds the
\* backend uninitialized, or one of whose remote calls raises, returns the
\* failure result its operation declares.
C8_ErrorPolicy ==
  last.op # "init"
    => /\ ~HasRaised(last)
       /\ (last.fault > 0 \/ (last.store = "none" /\ ~Falsy(last.user_id)))
            => last.result = FailureShape(last.op)

\* C8 witness: get_existing_mappings found the document and the refresh of
\* last_used, its second remote call, raised.
C8_Witness ==
  /\ last.op = "get_existing_mappings" /\ last.fault = 2
  /\ last.result = None
  /\ Where(Mappings(last.user_id), "file_name", last.key) # {}

\* C9: append-only law. No call removes or changes a remote financial record,
\* and a successful remote save_financial_data adds exactly one record, under
\* the id it returns, holding the type, the rows and the row count saved.
C9_AppendOnlyStep ==
  /\ \A user_id \in UserIds :
       \A id \in DOMAIN FinancialData(user_id) :
         /\ id \in DOMAIN firestore'[user_id].financial_data
         /\ firestore'[user_id].financial_data[id] = FinancialData(user_id)[id]
  /\ (nops' # nops /\ last'.op = "save_financial_data"
      /\ last'.store = "remote" /\ last'.result[1] = True)
       => LET after == firestore'[last'.user_id].financial_data
              id == last'.result[2]
          IN /\ id \notin DOMAIN FinancialData(last'.user_id)
             /\ DOMAIN after = (DOMAIN FinancialData(last'.user_id)) \cup {id}
             /\ after[id].type = last'.key
             /\ after[id].data = last'.arg
             /\ after[id].row_count = Len(last'.arg)

\* C9, over every step: remote financial records are append-only.
C9_AppendOnly == [][C9_AppendOnlyStep]_vars

\* C9 witness: a second record was saved for a remote user and both are there.
C9_Witness ==
  /\ last.op = "save_financial_data" /\ last.store = "remote"
  /\ last.result[1] = True
  /\ Cardinality(DOMAIN FinancialData(last.user_id)) = 2

\* C10: isolation law. A call with an id that begins with demo_user_ issues no
\* remote call and leaves the remote store as it was, whether or not the
\* backend is available.
C10_DemoIsolationStep ==
  last'.user_id \in DemoUserIds
    => /\ firestore' = firestore
       /\ last'.calls = 0
       /\ last'.store = "ephemeral"

\* C10, over every step that is a call: a demo id never reaches the remote
\* store.
C10_DemoIsolation == [][nops' # nops => C10_DemoIsolationStep]_vars

\* C10 witness: with the backend available and documents in the remote
\* store, a demo user's save went to the session store.
C10_Witness ==
  /\ last.op \in WriteOps /\ last.user_id \in DemoUserIds
  /\ firebase_app
  /\ \E user_id \in UserIds : DOMAIN Mappings(user_id) # {}
  /\ last.calls = 0 /\ SessionHolds(last, session_state)

====
